---- MODULE Spec2Model ----
(***************************************************************************)
(* SimpleCV (mlpack/core/cv/simple_cv_impl.hpp): a single hold-out split   *)
(* of a dataset into a training prefix and a validation suffix, followed   *)
(* by any number of train-and-score cycles on that fixed split.            *)
(*                                                                         *)
(* Numbers.  validationSize is a C++ double.  It is modelled as the        *)
(* dyadic rational validationSize / VDen with VDen a power of two; for     *)
(* such values and the small column counts used here every intermediate    *)
(* of round(n_cols * (1.0 - validationSize)) is exact in binary floating   *)
(* point, so the integer arithmetic below is the arithmetic of the code.   *)
(*                                                                         *)
(* Data.  The code never inspects a column, a response or a weight, it     *)
(* only copies contiguous ranges.  A dataset is therefore a sequence of    *)
(* pairwise distinct identifiers: any reordering, loss or duplication of   *)
(* points is visible in the identifiers.                                   *)
(***************************************************************************)
EXTENDS Integers, Sequences, FiniteSets, TLC

\* ------------------------------------------------------------------ bounds
MaxN == 4
VExp == 3
MaxEvals == 3

VDen == 2 ^ VExp

\* validationSize ranges over -1/VDen .. (VDen+1)/VDen, both ends outside [0,1]
Fractions == (-1) .. (VDen + 1)
Sizes == 0 .. MaxN

nullptr == 0

VARIABLES
  pc,              \* "start" | "constructed" | "failed"
  supportsWeights, \* template parameter: MLAlgorithm accepts a weights argument
  args,            \* the constructor's arguments
  cv,              \* the SimpleCV object: its data members
  nEvals,          \* number of Evaluate calls made so far
  lastCall,        \* outcome of the most recent public call
  trainCall,       \* arguments of the most recent call of the training routine
  metricCall,      \* arguments of the most recent call of Metric::Evaluate
  lastEval,        \* outcome of the most recent Evaluate call
  lastGood         \* the model trained by the most recent Evaluate call that
                   \* returned a score, nullptr if there is none

vars == <<pc, supportsWeights, args, cv, nEvals, lastCall, trainCall,
          metricCall, lastEval, lastGood>>

\* ------------------------------------------------------------- input data
\* n columns, n responses, n weights, each point with its own identifier
MakeXs(n) == [i \in 1..n |-> i]
MakeYs(n) == [i \in 1..n |-> 100 + i]
MakeWeights(n) == [i \in 1..n |-> 200 + i]

\* ---------------------------------------------------------------- helpers
Returned(v) == [threw |-> FALSE, what |-> "", msg |-> "", value |-> v]
Thrown(w, m) == [threw |-> TRUE, what |-> w, msg |-> m, value |-> 0]

\* m.cols(first, last) / m.subvec(first, last): zero-based, both ends included
GetSubset(m, first, last) == SubSeq(m, first + 1, last + 1)

\* ::round of the double a / VDen: nearest integer, halves away from zero
Round(a) ==
  IF a >= 0 THEN (2 * a + VDen) \div (2 * VDen)
            ELSE 0 - ((2 * (0 - a) + VDen) \div (2 * VDen))

\* Base::AssertDataConsistency: all parts have as many points as xs
AssertDataConsistency(xs, ys) ==
  IF Len(xs) # Len(ys) THEN Thrown("invalid_argument", "inconsistent")
  ELSE Returned(0)

AssertDataConsistencyWeighted(xs, ys, weights) ==
  IF Len(xs) # Len(ys) \/ Len(xs) # Len(weights)
  THEN Thrown("invalid_argument", "inconsistent")
  ELSE Returned(0)

\* the data members before the constructor body runs
Fresh ==
  [xs |-> <<>>, ys |-> <<>>, weights |-> <<>>,
   trainingXs |-> <<>>, trainingYs |-> <<>>,
   validationXs |-> <<>>, validationYs |-> <<>>,
   trainingWeights |-> <<>>, modelPtr |-> nullptr]

\* ------------------------------------------------------------ the splitter
\* variant: the test trainingPoints == xs.n_cols is missing
CalculateAndAssertNumberOfTrainingPoints_KeepsFullSplit(validationSize, n_cols) ==
  IF validationSize < 0 \/ validationSize > VDen
  THEN Thrown("invalid_argument", "fraction")
  ELSE IF n_cols < 2
  THEN Thrown("invalid_argument", "too_few_points")
  ELSE LET trainingPoints == Round(n_cols * (VDen - validationSize))
       IN IF trainingPoints = 0
          THEN Thrown("invalid_argument", "degenerate")
          ELSE Returned(trainingPoints)

\* variant: the test trainingPoints == 0 is missing
CalculateAndAssertNumberOfTrainingPoints_KeepsEmptyTraining(validationSize, n_cols) ==
  IF validationSize < 0 \/ validationSize > VDen
  THEN Thrown("invalid_argument", "fraction")
  ELSE IF n_cols < 2
  THEN Thrown("invalid_argument", "too_few_points")
  ELSE LET trainingPoints == Round(n_cols * (VDen - validationSize))
       IN IF trainingPoints = n_cols
          THEN Thrown("invalid_argument", "degenerate")
          ELSE Returned(trainingPoints)

\* variant: only the range of validationSize is tested
CalculateAndAssertNumberOfTrainingPoints_FractionOnly(validationSize, n_cols) ==
  IF validationSize < 0 \/ validationSize > VDen
  THEN Thrown("invalid_argument", "fraction")
  ELSE Returned(Round(n_cols * (VDen - validationSize)))

\* validationSize is the numerator of the fraction, n_cols is xs.n_cols
CalculateAndAssertNumberOfTrainingPoints(validationSize, n_cols) ==
  IF validationSize < 0 \/ validationSize > VDen
  THEN Thrown("invalid_argument", "fraction")
  ELSE IF n_cols < 2
  THEN Thrown("invalid_argument", "too_few_points")
  ELSE LET trainingPoints == Round(n_cols * (VDen - validationSize))
       IN IF trainingPoints = 0 \/ trainingPoints = n_cols
          THEN Thrown("invalid_argument", "degenerate")
          ELSE Returned(trainingPoints)

\* variant: the validation range starts one column late
InitTrainingAndValidationSets_SkipsBoundary(self, validationSize) ==
  LET r == CalculateAndAssertNumberOfTrainingPoints(validationSize, Len(self.xs))
      numberOfTrainingPoints == r.value
  IN IF r.threw THEN [r EXCEPT !.value = self]
     ELSE Returned([self EXCEPT
            !.trainingXs = GetSubset(self.xs, 0, numberOfTrainingPoints - 1),
            !.trainingYs = GetSubset(self.ys, 0, numberOfTrainingPoints - 1),
            !.validationXs =
                GetSubset(self.xs, numberOfTrainingPoints + 1, Len(self.xs) - 1),
            !.validationYs =
                GetSubset(self.ys, numberOfTrainingPoints + 1, Len(self.xs) - 1)])

InitTrainingAndValidationSets(self, validationSize) ==
  LET r == CalculateAndAssertNumberOfTrainingPoints(validationSize, Len(self.xs))
      numberOfTrainingPoints == r.value
  IN IF r.threw THEN [r EXCEPT !.value = self]
     ELSE Returned([self EXCEPT
            !.trainingXs = GetSubset(self.xs, 0, numberOfTrainingPoints - 1),
            !.trainingYs = GetSubset(self.ys, 0, numberOfTrainingPoints - 1),
            !.validationXs =
                GetSubset(self.xs, numberOfTrainingPoints, Len(self.xs) - 1),
            !.validationYs =
                GetSubset(self.ys, numberOfTrainingPoints, Len(self.xs) - 1)])

\* Init(validationSize, (xs, ys))
InitData(self, validationSize, dx, dy) ==
  LET s1 == [self EXCEPT !.xs = dx, !.ys = dy]
      c == AssertDataConsistency(s1.xs, s1.ys)
  IN IF c.threw THEN [c EXCEPT !.value = s1]
     ELSE InitTrainingAndValidationSets(s1, validationSize)

\* variant: the weight range ends at n_cols instead of n_cols - 1
InitDataWeighted_OneWeightTooMany(self, validationSize, dx, dy, dw) ==
  LET s1 == [self EXCEPT !.xs = dx, !.ys = dy, !.weights = dw]
      c == AssertDataConsistencyWeighted(s1.xs, s1.ys, s1.weights)
      r == InitTrainingAndValidationSets(s1, validationSize)
  IN IF c.threw THEN [c EXCEPT !.value = s1]
     ELSE IF r.threw THEN r
     ELSE Returned([r.value EXCEPT !.trainingWeights =
            GetSubset(r.value.weights, 0, Len(r.value.trainingXs))])

\* Init(validationSize, (xs, ys, weights))
InitDataWeighted(self, validationSize, dx, dy, dw) ==
  LET s1 == [self EXCEPT !.xs = dx, !.ys = dy, !.weights = dw]
      c == AssertDataConsistencyWeighted(s1.xs, s1.ys, s1.weights)
      r == InitTrainingAndValidationSets(s1, validationSize)
  IN IF c.threw THEN [c EXCEPT !.value = s1]
     ELSE IF r.threw THEN r
     ELSE Returned([r.value EXCEPT !.trainingWeights =
            GetSubset(r.value.weights, 0, Len(r.value.trainingXs) - 1)])

\* ------------------------------------------------------------ the evaluator
NoTrainCall ==
  [called |-> FALSE, xs |-> <<>>, ys |-> <<>>, weighted |-> FALSE,
   weights |-> <<>>]
NoMetricCall == [called |-> FALSE, model |-> nullptr, xs |-> <<>>, ys |-> <<>>]

\* Base::Train: the external training routine; it returns a new owned model
\* or fails
Train(trainOk, newModel) ==
  IF trainOk THEN Returned(newModel) ELSE Thrown("training_error", "")

\* Metric::Evaluate: the external metric; it returns a score or fails
MetricEvaluate(metricOk) ==
  IF metricOk THEN Returned(0) ELSE Thrown("metric_error", "")

\* what a call of TrainAndEvaluate leaves behind
Outcome(self, status, tc, mc) ==
  [self |-> self, status |-> status, trainCall |-> tc, metricCall |-> mc]

Scored(self, tc, metricOk) ==
  LET m == MetricEvaluate(metricOk)
      mc == [called |-> TRUE, model |-> self.modelPtr,
             xs |-> self.validationXs, ys |-> self.validationYs]
  IN Outcome(self, IF m.threw THEN m.what ELSE "ok", tc, mc)

UnweightedArgs(self) ==
  [called |-> TRUE, xs |-> self.trainingXs, ys |-> self.trainingYs,
   weighted |-> FALSE, weights |-> <<>>]

WeightedArgs(self) ==
  [called |-> TRUE, xs |-> self.trainingXs, ys |-> self.trainingYs,
   weighted |-> TRUE, weights |-> self.trainingWeights]

\* variant: the model is created once and kept
TrainAndEvaluate_KeepsFirstModel(self, newModel, trainOk, metricOk) ==
  LET t == Train(trainOk, newModel)
  IN IF t.threw THEN Outcome(self, t.what, UnweightedArgs(self), NoMetricCall)
     ELSE Scored(IF self.modelPtr = nullptr
                 THEN [self EXCEPT !.modelPtr = t.value] ELSE self,
                 UnweightedArgs(self), metricOk)

\* TrainAndEvaluate for an MLAlgorithm without weight support
TrainAndEvaluate(self, newModel, trainOk, metricOk) ==
  LET t == Train(trainOk, newModel)
  IN IF t.threw THEN Outcome(self, t.what, UnweightedArgs(self), NoMetricCall)
     ELSE Scored([self EXCEPT !.modelPtr = t.value],
                 UnweightedArgs(self), metricOk)

\* variant: the weighted branch is taken for n_elem > 1
TrainAndEvaluateWeighted_NeedsTwoWeights(self, newModel, trainOk, metricOk) ==
  LET t == Train(trainOk, newModel)
      tc == IF Len(self.trainingWeights) > 1
            THEN WeightedArgs(self) ELSE UnweightedArgs(self)
  IN IF t.threw THEN Outcome(self, t.what, tc, NoMetricCall)
     ELSE Scored([self EXCEPT !.modelPtr = t.value], tc, metricOk)

\* variant: trainingWeights is moved into the training call
TrainAndEvaluateWeighted_MovesWeights(self, newModel, trainOk, metricOk) ==
  LET t == Train(trainOk, newModel)
      tc == IF Len(self.trainingWeights) > 0
            THEN WeightedArgs(self) ELSE UnweightedArgs(self)
      moved == [self EXCEPT !.trainingWeights = <<>>]
  IN IF t.threw THEN Outcome(moved, t.what, tc, NoMetricCall)
     ELSE Scored([moved EXCEPT !.modelPtr = t.value], tc, metricOk)

\* TrainAndEvaluate for a weight-supporting MLAlgorithm
TrainAndEvaluateWeighted(self, newModel, trainOk, metricOk) ==
  LET t == Train(trainOk, newModel)
      tc == IF Len(self.trainingWeights) > 0
            THEN WeightedArgs(self) ELSE UnweightedArgs(self)
  IN IF t.threw THEN Outcome(self, t.what, tc, NoMetricCall)
     ELSE Scored([self EXCEPT !.modelPtr = t.value], tc, metricOk)

\* Model()
Model(self) ==
  IF self.modelPtr = nullptr THEN Thrown("logic_error", "uninitialized model")
  ELSE Returned(self.modelPtr)

\* ------------------------------------------------------------------ actions
NoCall == [op |-> "none", status |-> "", msg |-> "", value |-> 0]
NoArgs == [validationSize |-> 0, nx |-> 0, ny |-> 0, nw |-> 0,
           withWeights |-> FALSE]

Init ==
  /\ pc = "start"
  /\ supportsWeights \in BOOLEAN
  /\ args = NoArgs
  /\ cv = Fresh
  /\ nEvals = 0
  /\ lastCall = NoCall
  /\ trainCall = NoTrainCall
  /\ metricCall = NoMetricCall
  /\ lastEval = "none"
  /\ lastGood = nullptr

\* SimpleCV(validationSize, xs, ys) and SimpleCV(validationSize, xs, ys, weights)
SimpleCV(validationSize, nx, ny, nw, withWeights) ==
  /\ pc = "start"
  /\ LET r == IF withWeights
              THEN InitDataWeighted(Fresh, validationSize, MakeXs(nx),
                                    MakeYs(ny), MakeWeights(nw))
              ELSE InitData(Fresh, validationSize, MakeXs(nx), MakeYs(ny))
     IN /\ pc' = IF r.threw THEN "failed" ELSE "constructed"
        /\ cv' = IF r.threw THEN Fresh ELSE r.value
        /\ lastCall' = [op |-> "SimpleCV",
                        status |-> IF r.threw THEN r.what ELSE "ok",
                        msg |-> r.msg, value |-> 0]
  /\ args' = [validationSize |-> validationSize, nx |-> nx, ny |-> ny,
              nw |-> IF withWeights THEN nw ELSE 0,
              withWeights |-> withWeights]
  /\ UNCHANGED <<supportsWeights, nEvals, trainCall, metricCall,
                 lastEval, lastGood>>

\* Evaluate(args...): one call of TrainAndEvaluate; the instance the training
\* routine builds in the i-th call is instance i
Evaluate(trainOk, metricOk) ==
  /\ pc = "constructed"
  /\ nEvals < MaxEvals
  /\ LET r == IF supportsWeights
              THEN TrainAndEvaluateWeighted(cv, nEvals + 1, trainOk, metricOk)
              ELSE TrainAndEvaluate(cv, nEvals + 1, trainOk, metricOk)
     IN /\ cv' = r.self
        /\ trainCall' = r.trainCall
        /\ metricCall' = r.metricCall
        /\ lastCall' = [op |-> "Evaluate", status |-> r.status, msg |-> "",
                        value |-> 0]
        /\ lastEval' = r.status
        /\ lastGood' = IF r.status = "ok" THEN nEvals + 1 ELSE lastGood
  /\ nEvals' = nEvals + 1
  /\ UNCHANGED <<pc, supportsWeights, args>>

CallModel ==
  /\ pc = "constructed"
  /\ LET r == Model(cv)
     IN lastCall' = [op |-> "Model",
                     status |-> IF r.threw THEN r.what ELSE "ok",
                     msg |-> r.msg, value |-> r.value]
  /\ UNCHANGED <<pc, supportsWeights, args, cv, nEvals, trainCall, metricCall,
                 lastEval, lastGood>>

Construct ==
  \E validationSize \in Fractions, nx \in Sizes, ny \in Sizes, nw \in Sizes,
     withWeights \in BOOLEAN :
       SimpleCV(validationSize, nx, ny, nw, withWeights)

EvaluateAny == \E trainOk \in BOOLEAN, metricOk \in BOOLEAN :
                  Evaluate(trainOk, metricOk)

Next == Construct \/ EvaluateAny \/ CallModel

Spec == Init /\ [][Next]_vars

\* ------------------------------------------------------------- properties
N == args.nx
V == args.validationSize

\* k is the integer nearest to N * (1 - V / VDen), halves away from zero;
\* stated by the distance to k, not by the division Round uses
RoundsTo(k) ==
  LET a2 == 2 * N * (VDen - V)
  IN IF a2 >= 0
     THEN (2 * k - 1) * VDen <= a2 /\ a2 < (2 * k + 1) * VDen
     ELSE (2 * k - 1) * VDen < a2 /\ a2 <= (2 * k + 1) * VDen

Range(f) == {f[i] : i \in DOMAIN f}

Rejected ==
  /\ pc = "failed"
  /\ lastCall.op = "SimpleCV"
  /\ lastCall.status = "invalid_argument"
  /\ cv = Fresh

\* C1: a successful construction with N >= 2 points and a fraction in (0,1)
\* whose k = round(N * (1 - v)) lies strictly between 0 and N leaves the
\* first k points, in order, in Training and the remaining N - k points, in
\* order, in Validation, so that the sizes add up to N and Training followed
\* by Validation is the original dataset.
C1_SplitIsPrefixAndSuffix ==
  pc = "constructed" =>
    \E k \in 1 .. (N - 1) :
      /\ N >= 2 /\ 0 < V /\ V < VDen
      /\ RoundsTo(k)
      /\ cv.xs = MakeXs(N) /\ cv.ys = MakeYs(N)
      /\ Len(cv.trainingXs) = k /\ Len(cv.trainingYs) = k
      /\ Len(cv.validationXs) = N - k /\ Len(cv.validationYs) = N - k
      /\ \A i \in 1 .. k :
           cv.trainingXs[i] = cv.xs[i] /\ cv.trainingYs[i] = cv.ys[i]
      /\ \A j \in 1 .. (N - k) :
           /\ cv.validationXs[j] = cv.xs[k + j]
           /\ cv.validationYs[j] = cv.ys[k + j]
      /\ Len(cv.trainingXs) + Len(cv.validationXs) = N
      /\ cv.trainingXs \o cv.validationXs = cv.xs
      /\ cv.trainingYs \o cv.validationYs = cv.ys

\* N = 4, v = 1/4: k = 3, Training = points 0..2, Validation = point 3
C1_Witness ==
  /\ pc = "constructed"
  /\ N = 4 /\ 4 * V = VDen
  /\ cv.trainingXs = <<1, 2, 3>>
  /\ cv.validationXs = <<4>>

\* C2: an Evaluate call that fails, in training or in the metric, leaves the
\* stored model as it was: when the evaluator holds the model of an earlier
\* successful Evaluate, Model() still returns that model afterwards.
C2_FailedEvaluateKeepsModel ==
  [][(/\ lastGood # nullptr
      /\ cv.modelPtr = lastGood
      /\ nEvals' = nEvals + 1
      /\ lastEval' # "ok")
     => (cv'.modelPtr = cv.modelPtr /\ Model(cv') = Model(cv))]_vars

\* C3: as long as no Evaluate call has succeeded, whatever number of calls
\* failed in training or in the metric, Model() fails with a logic error.
C3_NoModelUntilSuccess ==
  (pc = "constructed" /\ lastGood = nullptr) =>
    /\ Model(cv).threw
    /\ Model(cv).what = "logic_error"
    /\ (lastCall.op = "Model" => lastCall.status = "logic_error")

\* C4: after an Evaluate call that succeeded, Model() returns the instance
\* that call trained, not the instance of an earlier call.
C4_ModelIsMostRecent ==
  (pc = "constructed" /\ lastEval = "ok") =>
    /\ cv.modelPtr = nEvals
    /\ lastGood = nEvals
    /\ Model(cv) = Returned(nEvals)
    /\ (lastCall.op = "Model" =>
          lastCall.status = "ok" /\ lastCall.value = nEvals)

\* two successful calls, then Model(): the second call's instance
C4_Witness ==
  /\ nEvals = 2
  /\ lastEval = "ok"
  /\ trainCall.called /\ metricCall.called /\ metricCall.model = 2
  /\ lastCall.op = "Model"
  /\ lastCall.value = 2

\* C5: a fraction v <= 0 or v >= 1, the endpoints 0 and 1 included, is
\* rejected with an invalid-argument error for every dataset, and no
\* evaluator exists afterwards.
C5_FractionOutsideOpenIntervalRejected ==
  (pc # "start" /\ (V <= 0 \/ V >= VDen)) => Rejected

\* v = 0 exactly on a consistent dataset of N >= 2 points
C5_Witness ==
  /\ pc = "failed"
  /\ V = 0
  /\ N >= 2 /\ args.ny = N /\ ~args.withWeights
  /\ lastCall.msg = "degenerate"

\* C6: for N >= 2, a fraction whose k = round(N * (1 - v)) is 0 or N is
\* rejected with an invalid-argument error; every evaluator that exists has
\* 1 <= k <= N - 1, so neither partition is empty.
C6_DegenerateSplitRejected ==
  /\ (pc # "start" /\ N >= 2 /\ (RoundsTo(0) \/ RoundsTo(N))) => Rejected
  /\ pc = "constructed" =>
       /\ 1 <= Len(cv.trainingXs) /\ Len(cv.trainingXs) <= N - 1
       /\ 1 <= Len(cv.validationXs)
       /\ 1 <= Len(cv.trainingYs) /\ 1 <= Len(cv.validationYs)

\* N = 3, v = 1/8: round(2.625) = 3 = N
C6_Witness ==
  /\ pc = "failed"
  /\ N = 3 /\ 8 * V = VDen /\ args.ny = 3
  /\ RoundsTo(3)
  /\ lastCall.msg = "degenerate"

\* C7: a dataset of fewer than 2 points is rejected with an invalid-argument
\* error, whatever the fraction.
C7_TooFewPointsRejected ==
  (pc # "start" /\ N < 2) => Rejected

\* one point, v = 1/2, sizes consistent
C7_Witness ==
  /\ pc = "failed"
  /\ N = 1 /\ args.ny = 1 /\ 2 * V = VDen
  /\ lastCall.msg = "too_few_points"

\* C8: after a weighted construction Training-Weights is weights 0..k-1,
\* entry i being the weight of training point i; the weights of the
\* validation points reach neither the training routine nor the metric.
C8_TrainingWeightsAligned ==
  (pc = "constructed" /\ args.withWeights) =>
    LET k == Len(cv.trainingXs)
        held == {cv.weights[i] : i \in (k + 1) .. N}
    IN /\ cv.weights = MakeWeights(N)
       /\ Len(cv.trainingWeights) = k
       /\ \A i \in 1 .. k :
            cv.trainingWeights[i] = cv.weights[i] /\ cv.trainingXs[i] = cv.xs[i]
       /\ held # {}
       /\ Range(trainCall.weights) \cap held = {}
       /\ (Range(trainCall.xs) \cup Range(trainCall.ys)) \cap Range(cv.weights) = {}
       /\ (trainCall.called /\ trainCall.weighted) =>
            trainCall.weights = SubSeq(cv.weights, 1, k)
       /\ (Range(metricCall.xs) \cup Range(metricCall.ys))
            \cap Range(cv.weights) = {}

\* weighted construction of 4 points with k = 3, trained with weights, scored
C8_Witness ==
  /\ pc = "constructed" /\ args.withWeights
  /\ N = 4 /\ Len(cv.trainingXs) = 3
  /\ cv.trainingWeights = <<201, 202, 203>>
  /\ trainCall.called /\ trainCall.weighted
  /\ metricCall.called

\* C9: for a weight-supporting model, every call of the training routine
\* gets (TrainingX, TrainingY, TrainingWeights) exactly when the evaluator
\* was constructed with weights and (TrainingX, TrainingY) otherwise.
C9_DispatchFixedByConstruction ==
  (pc = "constructed" /\ supportsWeights /\ trainCall.called) =>
    /\ trainCall.weighted <=> args.withWeights
    /\ trainCall.xs = cv.trainingXs
    /\ trainCall.ys = cv.trainingYs
    /\ trainCall.weights =
         IF args.withWeights THEN cv.trainingWeights ELSE <<>>

\* second call on an evaluator built with weights whose training set is one
\* point
C9_Witness ==
  /\ supportsWeights /\ args.withWeights
  /\ Len(cv.trainingWeights) = 1
  /\ nEvals = 2
  /\ trainCall.called /\ trainCall.weighted

\* C10: no Evaluate or Model() call, successful or not, changes the dataset
\* or a partition; the stored model is the only member an Evaluate call
\* writes.
C10_SplitNeverChanges ==
  [][pc = "constructed" =>
       /\ cv' = [cv EXCEPT !.modelPtr = cv'.modelPtr]
       /\ cv'.xs = cv.xs /\ cv'.ys = cv.ys /\ cv'.weights = cv.weights
       /\ cv'.trainingXs = cv.trainingXs /\ cv'.trainingYs = cv.trainingYs
       /\ cv'.validationXs = cv.validationXs
       /\ cv'.validationYs = cv.validationYs
       /\ cv'.trainingWeights = cv.trainingWeights
       /\ (nEvals' = nEvals => cv' = cv)]_vars

\* a weighted evaluator after a failed call, a successful call and Model()
C10_Witness ==
  /\ pc = "constructed" /\ args.withWeights /\ supportsWeights
  /\ cv.trainingWeights # <<>>
  /\ nEvals >= 2
  /\ lastEval # "ok" /\ lastGood # nullptr
  /\ lastCall.op = "Model"

====
